---- MODULE Spec2Model ----
(***************************************************************************)
(* A model of trending_vid_analysis.py: the timestamp normaliser           *)
(* convert_date, the category labeller map_categories and the top-N        *)
(* aggregator top_video_producing_for_yr.                                  *)
(*                                                                         *)
(* Strings are sequences of one-character strings, so that parsing and     *)
(* formatting are computed character by character.                         *)
(***************************************************************************)
EXTENDS Integers, Sequences, FiniteSets, TLC

VARIABLES
    given,        \* the fields the timestamp was written from (ghost)
    timestamp,    \* convert_date's argument `timestamp`
    date_format,  \* convert_date's argument `date_format`
    today,        \* the calendar date of the run (dateutil's default date)
    result,       \* what convert_date returned or raised; "pending" before the call
    frames,       \* the DataFrame objects that exist, by reference (1, 2, ...)
    df,           \* the global `df`: a reference into frames
    mapped_df,    \* the global `mapped_df`: a reference into frames, 0 while unbound
    category_dict,\* the global `category_dict`
    history,      \* the calls made so far, oldest first (ghost)
    prev,         \* frames as they were before the last call (ghost)
    top           \* the call of top_video_producing_for_yr and what it returned

dateVars == <<given, timestamp, date_format, today, result>>

frameVars == <<frames, df, mapped_df, category_dict, history, prev>>

vars == <<given, timestamp, date_format, today, result,
          frames, df, mapped_df, category_dict, history, prev, top>>

(***************************************************************************)
(* Characters and numbers                                                  *)
(***************************************************************************)
Digits == <<"0", "1", "2", "3", "4", "5", "6", "7", "8", "9">>

DigitSet == {Digits[i] : i \in 1..10}

NonZeroDigitSet == DigitSet \ {"0"}

DigitChar(n) == Digits[n + 1]

DigitVal(c) == CHOOSE n \in 0..9 : Digits[n + 1] = c

Range(s) == {s[i] : i \in 1..Len(s)}

\* int(): the value of a run of digits; a leading blank (the " [1-9]" day) counts as nothing
RECURSIVE NumVal(_)
NumVal(s) ==
    IF s = <<>> THEN 0
    ELSE LET last == s[Len(s)]
             front == SubSeq(s, 1, Len(s) - 1)
         IN  NumVal(front) * 10 + (IF last = " " THEN 0 ELSE DigitVal(last))

\* zero-padded decimal of width 2 and 4, as strftime's %m, %d and (for years >= 1000) %Y write them
Fmt2(n) == <<DigitChar((n \div 10) % 10), DigitChar(n % 10)>>

Fmt4(n) == <<DigitChar((n \div 1000) % 10), DigitChar((n \div 100) % 10)>> \o Fmt2(n % 100)

(***************************************************************************)
(* The calendar, as datetime's constructor checks it                       *)
(***************************************************************************)
IsLeap(year) == (year % 4 = 0) /\ ((year % 100 # 0) \/ (year % 400 = 0))

DaysInMonth(year, month) ==
    IF month = 2 THEN (IF IsLeap(year) THEN 29 ELSE 28)
    ELSE IF month \in {4, 6, 9, 11} THEN 30
    ELSE 31

ValidDate(year, month, day) ==
    /\ year \in 1..9999
    /\ month \in 1..12
    /\ day >= 1
    /\ day <= DaysInMonth(year, month)

ValidTime(hour, minute, second) ==
    /\ hour \in 0..23
    /\ minute \in 0..59
    /\ second \in 0..59

ParseError == [status |-> "ParseError", year |-> 0, month |-> 0, day |-> 0,
               hour |-> 0, minute |-> 0, second |-> 0]

Datetime(year, month, day, hour, minute, second) ==
    [status |-> "ok", year |-> year, month |-> month, day |-> day,
     hour |-> hour, minute |-> minute, second |-> second]

(***************************************************************************)
(* datetime.strptime: the format becomes a regular expression, matched at  *)
(* the start of the string with the alternatives of a directive tried in   *)
(* order; text left over after the match is an error.                      *)
(***************************************************************************)
\* the alternatives of a directive, each a sequence of character classes
DirectiveAlts(dir) ==
    CASE dir = "d" -> << <<{"3"}, {"0", "1"}>>, <<{"1", "2"}, DigitSet>>,
                         <<{"0"}, NonZeroDigitSet>>, <<NonZeroDigitSet>>,
                         <<{" "}, NonZeroDigitSet>> >>
      [] dir = "m" -> << <<{"1"}, {"0", "1", "2"}>>, <<{"0"}, NonZeroDigitSet>>,
                         <<NonZeroDigitSet>> >>
      [] dir = "y" -> << <<DigitSet, DigitSet>> >>
      [] dir = "Y" -> << <<DigitSet, DigitSet, DigitSet, DigitSet>> >>

AltMatches(alt, s, si) ==
    /\ si + Len(alt) - 1 <= Len(s)
    /\ \A k \in 1..Len(alt) : s[si + k - 1] \in alt[k]

NoMatch == [matched |-> FALSE, end |-> 0, found |-> [k \in {"Y", "y", "m", "d"} |-> -1]]

NothingFound == [k \in {"Y", "y", "m", "d"} |-> -1]

RECURSIVE ReMatch(_, _, _, _)
ReMatch(fmt, s, si, found) ==
    IF fmt = <<>> THEN [matched |-> TRUE, end |-> si, found |-> found]
    ELSE IF fmt[1] = "%" THEN
        LET dir == fmt[2]
            rest == SubSeq(fmt, 3, Len(fmt))
            alts == DirectiveAlts(dir)
            try(k) ==
                IF AltMatches(alts[k], s, si)
                THEN ReMatch(rest, s, si + Len(alts[k]),
                             [found EXCEPT ![dir] =
                                 NumVal(SubSeq(s, si, si + Len(alts[k]) - 1))])
                ELSE NoMatch
            good == {k \in 1..Len(alts) : try(k).matched}
        IN  IF good = {} THEN NoMatch
            ELSE try(CHOOSE k \in good : \A j \in good : k <= j)
    ELSE IF si <= Len(s) /\ s[si] = fmt[1]
         THEN ReMatch(SubSeq(fmt, 2, Len(fmt)), s, si + 1, found)
         ELSE NoMatch

\* %y: 00..68 are 2000..2068 and 69..99 are 1969..1999
TwoDigitYear(yy) == IF yy <= 68 THEN 2000 + yy ELSE 1900 + yy

Strptime(s, fmt) ==
    LET r == ReMatch(fmt, s, 1, NothingFound)
        f == r.found
        year == IF f["Y"] # -1 THEN f["Y"]
                ELSE IF f["y"] # -1 THEN TwoDigitYear(f["y"])
                ELSE 1900
        month == IF f["m"] # -1 THEN f["m"] ELSE 1
        day == IF f["d"] # -1 THEN f["d"] ELSE 1
    IN  IF ~r.matched THEN ParseError
        ELSE IF r.end # Len(s) + 1 THEN ParseError
        ELSE IF ~ValidDate(year, month, day) THEN ParseError
        ELSE Datetime(year, month, day, 0, 0, 0)

(***************************************************************************)
(* dateutil.parser.parse, for the shapes of text drawn here: the full      *)
(* timestamp 'yyyy-mm-ddThh:mm:ss.fffZ' of publish_time, and a time of day *)
(* alone, 'hh:mm:ssZ', whose missing date fields the parser takes from its *)
(* default, the day of the run.  Any other text drawn here is text the     *)
(* parser rejects.                                                         *)
(***************************************************************************)
IsoShape ==
    <<DigitSet, DigitSet, DigitSet, DigitSet, {"-"}, DigitSet, DigitSet, {"-"},
      DigitSet, DigitSet, {"T"}, DigitSet, DigitSet, {":"}, DigitSet, DigitSet,
      {":"}, DigitSet, DigitSet, {"."}, DigitSet, DigitSet, DigitSet, {"Z"}>>

TimeShape ==
    <<DigitSet, DigitSet, {":"}, DigitSet, DigitSet, {":"}, DigitSet, DigitSet, {"Z"}>>

HasShape(s, shape) == Len(s) = Len(shape) /\ AltMatches(shape, s, 1)

DateutilParse(s, default) ==
    IF HasShape(s, IsoShape) THEN
        LET year == NumVal(SubSeq(s, 1, 4))
            month == NumVal(SubSeq(s, 6, 7))
            day == NumVal(SubSeq(s, 9, 10))
            hour == NumVal(SubSeq(s, 12, 13))
            minute == NumVal(SubSeq(s, 15, 16))
            second == NumVal(SubSeq(s, 18, 19))
        IN  IF ValidDate(year, month, day) /\ ValidTime(hour, minute, second)
            THEN Datetime(year, month, day, hour, minute, second)
            ELSE ParseError
    ELSE IF HasShape(s, TimeShape) THEN
        LET hour == NumVal(SubSeq(s, 1, 2))
            minute == NumVal(SubSeq(s, 4, 5))
            second == NumVal(SubSeq(s, 7, 8))
        IN  IF ValidTime(hour, minute, second)
            THEN Datetime(default.year, default.month, default.day, hour, minute, second)
            ELSE ParseError
    ELSE ParseError

\* a variant that writes the day first
StrftimeDmy(d) == Fmt2(d.day) \o <<"-">> \o Fmt2(d.month) \o <<"-">> \o Fmt4(d.year)

\* d.strftime('%Y-%m-%d'), for the four-digit years drawn here
StrftimeYmd(d) == Fmt4(d.year) \o <<"-">> \o Fmt2(d.month) \o <<"-">> \o Fmt2(d.day)

\* a variant that reads the month before the day
CompactFormatMonthFirst == <<"%", "y", ".", "%", "m", ".", "%", "d">>

CompactFormat == <<"%", "y", ".", "%", "d", ".", "%", "m">>

DefaultFormat == <<"%", "Y", "-", "%", "m", "-", "%", "d">>

convert_date(ts, fmt, default) ==
    IF "Z" \notin Range(ts)
    THEN Strptime(ts, CompactFormat)
    ELSE LET d == DateutilParse(ts, default)
         IN  IF d.status # "ok" THEN ParseError
             ELSE Strptime(StrftimeYmd(d), fmt)

(***************************************************************************)
(* The timestamps and formats convert_date is called with                  *)
(***************************************************************************)
CompactYears == {0, 17, 68, 69, 99}

CompactDays == {0, 1, 14, 29, 30, 31, 32}

CompactMonths == {0, 1, 2, 4, 11, 12, 13}

IsoYears == {1999, 2017, 2020}

IsoMonths == {1, 2, 11, 12, 13}

IsoDays == {0, 1, 13, 29, 30, 31}

Times == {<<0, 0, 0>>, <<17, 13, 1>>, <<23, 59, 59>>, <<24, 0, 0>>}

\* text of neither form, none of which strptime or dateutil accepts
JunkStrings ==
    << <<>>,
       <<"h", "e", "l", "l", "o">>,
       <<"Z">>,
       <<"2", "0", "1", "7", "-", "1", "1", "-", "1", "3">>,
       <<"1", "7", "-", "1", "4", "-", "1", "1">>,
       <<"1", "7", ".", "1", "4">>,
       <<"1", "7", ".", "1", "4", ".", "1", "1", ".", "0", "1">> >>

Formats ==
    { DefaultFormat,
      <<"%", "d", "/", "%", "m", "/", "%", "Y">>,
      <<"%", "Y", "-", "%", "d", "-", "%", "m">>,
      CompactFormat }

Todays == {[year |-> 2019, month |-> 6, day |-> 1], [year |-> 2026, month |-> 11, day |-> 6]}

Given(form, year, month, day, time) ==
    [form |-> form, year |-> year, month |-> month, day |-> day,
     hour |-> time[1], minute |-> time[2], second |-> time[3]]

Givens ==
    {Given("compact", y, m, d, <<0, 0, 0>>) :
        y \in CompactYears, m \in CompactMonths, d \in CompactDays}
    \cup {Given("loose", y, m, d, <<0, 0, 0>>) :
        y \in {17}, m \in {1, 4}, d \in {4, 9}}
    \cup {Given("iso", y, m, d, t) :
        y \in IsoYears, m \in IsoMonths, d \in IsoDays, t \in Times}
    \cup {Given("time", 0, 0, 0, t) : t \in Times}
    \cup {Given("junk", i, 0, 0, <<0, 0, 0>>) : i \in 1..Len(JunkStrings)}

\* the text of a timestamp written from its fields
Render(g) ==
    CASE g.form = "compact" ->
            Fmt2(g.year) \o <<".">> \o Fmt2(g.day) \o <<".">> \o Fmt2(g.month)
      [] g.form = "loose" ->
            Fmt2(g.year) \o <<".", DigitChar(g.day), ".", DigitChar(g.month)>>
      [] g.form = "iso" ->
            Fmt4(g.year) \o <<"-">> \o Fmt2(g.month) \o <<"-">> \o Fmt2(g.day)
            \o <<"T">> \o Fmt2(g.hour) \o <<":">> \o Fmt2(g.minute) \o <<":">>
            \o Fmt2(g.second) \o <<".", "0", "0", "0", "Z">>
      [] g.form = "time" ->
            Fmt2(g.hour) \o <<":">> \o Fmt2(g.minute) \o <<":">> \o Fmt2(g.second)
            \o <<"Z">>
      [] g.form = "junk" -> JunkStrings[g.year]

(***************************************************************************)
(* DataFrames.  Of the sixteen columns of the data set the model keeps the *)
(* ones the three functions read or write.  A frame is its column names in *)
(* order and its rows; a column a frame does not have holds NoValue (0 for *)
(* the integer column year) in every row.                                  *)
(***************************************************************************)
NaN == "NaN"

NoValue == "<no column>"

LoadedColumns == <<"video_id", "title", "channel_title", "category_id", "publish_time">>

Row(video_id, channel_title, category_id, publish_year) ==
    [video_id |-> video_id, title |-> "t", channel_title |-> channel_title,
     category_id |-> category_id, category_label |-> NoValue,
     publish_time |-> Datetime(publish_year, 11, 13, 0, 0, 0), year |-> 0]

Frame(rows) == [columns |-> LoadedColumns, rows |-> rows]

\* category_dict, as written
CategoryDictLiteral ==
    (1 :> "Film & Animation") @@ (2 :> "Autos & Vehicles") @@ (10 :> "Music")
    @@ (15 :> "Pets & Animals") @@ (17 :> "Sports") @@ (18 :> "Short Movies")
    @@ (19 :> "Travel & Events") @@ (20 :> "Gaming") @@ (21 :> "Videoblogging")
    @@ (22 :> "People & Blogs") @@ (23 :> "Comedy") @@ (24 :> "Entertainment")
    @@ (25 :> "News & Politics") @@ (26 :> "Howto & Style") @@ (27 :> "Education")
    @@ (28 :> "Science & Technology") @@ (29 :> "Nonprofits & Activism")
    @@ (30 :> "Movies") @@ (31 :> "Anime/Animation") @@ (32 :> "Action/Adventure")
    @@ (33 :> "Classics") @@ (34 :> "Comedy") @@ (35 :> "Documentary")
    @@ (36 :> "Drama") @@ (37 :> "Family") @@ (38 :> "Foreign") @@ (39 :> "Horror")
    @@ (40 :> "Sci-Fi/Fantasy") @@ (41 :> "Thriller") @@ (42 :> "Shorts")
    @@ (43 :> "Shows") @@ (44 :> "Trailers")

\* another dictionary a caller may pass as map_dict
OtherDict == (10 :> "Songs") @@ (999 :> "Unknown")

\* the dictionaries map_categories is called with, by name
MapDict(name) == IF name = "category_dict" THEN category_dict ELSE OtherDict

MapDictNames == {"category_dict", "other"}

\* a variant that labels a missing key "Unknown", as dict.get(key, "Unknown") would
SeriesMapDefault(value, map_dict) ==
    IF value \in DOMAIN map_dict THEN map_dict[value] ELSE "Unknown"

\* Series.map(dict): the value under the key, NaN for a key the dict does not have
SeriesMap(value, map_dict) ==
    IF value \in DOMAIN map_dict THEN map_dict[value] ELSE NaN

\* a variant that maps the label column once it exists, df.category_label.map(map_dict):
\* a label is no key of the dictionary, so every row that has one maps to NaN
MappedSeriesOfLabel(frame, map_dict) ==
    [i \in 1..Len(frame.rows) |->
        IF frame.rows[i].category_label = NoValue
        THEN SeriesMap(frame.rows[i].category_id, map_dict)
        ELSE NaN]

\* df.category_id.map(map_dict): one mapped value per row, read from category_id
MappedSeries(frame, map_dict) ==
    [i \in 1..Len(frame.rows) |-> SeriesMap(frame.rows[i].category_id, map_dict)]

\* df[column] = series: the column is overwritten in place, or added as the last one
SetColumn(frame, column, series) ==
    [columns |-> IF column \in Range(frame.columns) THEN frame.columns
                 ELSE Append(frame.columns, column),
     rows |-> [i \in 1..Len(frame.rows) |-> [frame.rows[i] EXCEPT ![column] = series[i]]]]

\* the frame map_categories leaves behind
map_categories(frame, map_dict, column) ==
    SetColumn(frame, column, MappedSeries(frame, map_dict))

(***************************************************************************)
(* top_video_producing_for_yr                                              *)
(***************************************************************************)
\* channel titles, in the ascending order groupby sorts its keys into
ChannelOrder == <<"A", "B", "C">>

Channels == Range(ChannelOrder)

\* a variant that keeps every row, whatever its year
YearSliceAll(rows, year) == rows

\* df[year_filter]
YearSlice(rows, year) == SelectSeq(rows, LAMBDA r : r.publish_time.year = year)

\* groupby(['channel_title'])['video_id'].count(): one entry per channel that has
\* a row, keys ascending, each with the number of its rows whose video_id is not null
GroupByCount(rows) ==
    LET present(c) == \E i \in 1..Len(rows) : rows[i].channel_title = c
        keys == SelectSeq(ChannelOrder, present)
        count(c) == Cardinality({i \in 1..Len(rows) :
                        rows[i].channel_title = c /\ rows[i].video_id # 0})
    IN  [k \in 1..Len(keys) |-> [channel |-> keys[k], count |-> count(keys[k])]]

\* a variant that sorts ascending
SortValuesAscending(groups) ==
    LET n == Len(groups)
        ordered(q) == \A i \in 1..(n - 1) : q[i].count <= q[i + 1].count
    IN  {q \in {[i \in 1..n |-> groups[p[i]]] :
            p \in {f \in [1..n -> 1..n] : \A i, j \in 1..n : i # j => f[i] # f[j]}} :
         ordered(q)}

Orderings(n) == {p \in [1..n -> 1..n] : \A i, j \in 1..n : i # j => p[i] # p[j]}

\* sort_values(ascending=False) with the default kind, quicksort, which is not
\* stable: where counts tie, the order is whatever the installed pandas and numpy
\* leave (ascending keys, descending keys when the ascending argsort is reversed,
\* or neither with a vectorised sort), so every ordering of the groups with
\* non-increasing counts is a possible outcome
SortValuesDescending(groups) ==
    LET n == Len(groups)
        ordered(q) == \A i \in 1..(n - 1) : q[i].count >= q[i + 1].count
    IN  {q \in {[i \in 1..n |-> groups[p[i]]] : p \in Orderings(n)} : ordered(q)}

\* a variant that stops one short, s[:n - 1] for n >= 1
SliceToShort(s, n) ==
    IF n >= 1 THEN SubSeq(s, 1, IF n - 1 < Len(s) THEN n - 1 ELSE Len(s))
    ELSE SubSeq(s, 1, IF Len(s) + n > 0 THEN Len(s) + n ELSE 0)

\* s[:n]
SliceTo(s, n) ==
    IF n >= 0 THEN SubSeq(s, 1, IF n < Len(s) THEN n ELSE Len(s))
    ELSE SubSeq(s, 1, IF Len(s) + n > 0 THEN Len(s) + n ELSE 0)

\* the values top_video_producing_for_yr may return
top_video_producing_for_yr(frame, year, top_range) ==
    LET sliced_df == YearSlice(frame.rows, year)
        channel_vid_groups == GroupByCount(sliced_df)
    IN  {SliceTo(sorted_groups, top_range) :
            sorted_groups \in SortValuesDescending(channel_vid_groups)}

(***************************************************************************)
(* Bounds of the model                                                     *)
(***************************************************************************)
MaxLabelRows == 2

MaxCalls == 3

MaxTopRows == 4

MaxTopRange == 5

(***************************************************************************)
(* State                                                                   *)
(***************************************************************************)
Pending == [status |-> "pending", year |-> 0, month |-> 0, day |-> 0,
            hour |-> 0, minute |-> 0, second |-> 0]

NoCall == [status |-> "pending", year |-> 0, top_range |-> 0, producers |-> <<>>]

\* the data-set variables of a run that starts from the rows `rows`
Loaded(rows) ==
    /\ frames = <<Frame(rows)>>
    /\ df = 1
    /\ mapped_df = 0
    /\ category_dict = CategoryDictLiteral
    /\ history = <<>>
    /\ prev = <<Frame(rows)>>
    /\ top = NoCall

NoDate ==
    /\ given = Given("junk", 1, 0, 0, <<0, 0, 0>>)
    /\ timestamp = <<>>
    /\ date_format = DefaultFormat
    /\ today = [year |-> 2019, month |-> 6, day |-> 1]
    /\ result = Pending

(***************************************************************************)
(* convert_date on one timestamp                                           *)
(***************************************************************************)
InitDate ==
    /\ given \in Givens
    /\ timestamp = Render(given)
    /\ date_format \in Formats
    /\ today \in Todays
    /\ result = Pending
    /\ Loaded(<<>>)

\* df[col] = [convert_date(ts) for ts in df[col]], one element; any format may be passed
CallConvertDate ==
    /\ result.status = "pending"
    /\ result' = convert_date(timestamp, date_format, today)
    /\ UNCHANGED <<given, timestamp, date_format, today>>
    /\ UNCHANGED <<frameVars, top>>

NextDate == CallConvertDate

SpecDate == InitDate /\ [][NextDate]_vars

(***************************************************************************)
(* map_categories and the statements that follow its call                  *)
(***************************************************************************)
\* every category code of the dictionary, and one it does not have
AllCategoryIds == DOMAIN CategoryDictLiteral \cup {999}

FewCategoryIds == {10, 34, 999}

LabelRowSets ==
    {<<>>}
    \cup UNION {
        {[i \in 1..n |-> Row(i, "A", IF i = 1 THEN first ELSE rest[i], 2017)] :
            first \in AllCategoryIds, rest \in [1..n -> FewCategoryIds]} :
        n \in 1..MaxLabelRows}

InitLabel ==
    /\ NoDate
    /\ \E rows \in LabelRowSets : Loaded(rows)

\* the frames a name is bound to
Bound == {df} \cup ({mapped_df} \ {0})

MapColumns == {"category_label", "title"}

\* a variant of the call in which map_categories works on a copy, df.copy(), and
\* returns the copy
CallMapCategoriesCopy ==
    /\ Len(history) < MaxCalls
    /\ \E r \in Bound, name \in MapDictNames, column \in MapColumns :
        /\ frames' = Append(frames, map_categories(frames[r], MapDict(name), column))
        /\ mapped_df' = Len(frames) + 1
        /\ history' = Append(history, [op |-> "map_categories", frame |-> r,
                                       map_dict |-> name, column |-> column,
                                       ret |-> Len(frames) + 1])
    /\ prev' = frames
    /\ UNCHANGED <<df, category_dict, top, dateVars>>

\* mapped_df = map_categories(<frame>, map_dict=<dict>, column=<column>): the
\* frame is updated in place and the same object is returned
CallMapCategories ==
    /\ Len(history) < MaxCalls
    /\ \E r \in Bound, name \in MapDictNames, column \in MapColumns :
        /\ frames' = [frames EXCEPT ![r] = map_categories(frames[r], MapDict(name), column)]
        /\ mapped_df' = r
        /\ history' = Append(history, [op |-> "map_categories", frame |-> r,
                                       map_dict |-> name, column |-> column, ret |-> r])
    /\ prev' = frames
    /\ UNCHANGED <<df, category_dict, top, dateVars>>

\* mapped_df['year'] = [int(date.year) for date in mapped_df['publish_time']]
AddYear ==
    /\ Len(history) < MaxCalls
    /\ mapped_df # 0
    /\ frames' = [frames EXCEPT ![mapped_df] =
            SetColumn(frames[mapped_df], "year",
                [i \in 1..Len(frames[mapped_df].rows) |->
                    frames[mapped_df].rows[i].publish_time.year])]
    /\ history' = Append(history, [op |-> "add_year", frame |-> mapped_df,
                                   map_dict |-> "none", column |-> "year", ret |-> mapped_df])
    /\ prev' = frames
    /\ UNCHANGED <<df, mapped_df, category_dict, top, dateVars>>

RearrangedColumns ==
    <<"video_id", "title", "channel_title", "category_id", "category_label",
      "publish_time", "year">>

\* mapped_df = mapped_df[[...]]: a new frame with the columns in the listed order
Rearrange ==
    /\ Len(history) < MaxCalls
    /\ mapped_df # 0
    /\ Range(RearrangedColumns) \subseteq Range(frames[mapped_df].columns)
    /\ frames' = Append(frames, [columns |-> RearrangedColumns,
                                 rows |-> frames[mapped_df].rows])
    /\ mapped_df' = Len(frames) + 1
    /\ history' = Append(history, [op |-> "rearrange", frame |-> mapped_df,
                                   map_dict |-> "none", column |-> "none",
                                   ret |-> Len(frames) + 1])
    /\ prev' = frames
    /\ UNCHANGED <<df, category_dict, top, dateVars>>

NextLabel == CallMapCategories \/ AddYear \/ Rearrange

SpecLabel == InitLabel /\ [][NextLabel]_vars

(***************************************************************************)
(* top_video_producing_for_yr on a data set                                *)
(***************************************************************************)
TopYears == {2017, 2018}

\* A(3 videos, 2017), B(5, 2017), C(1, 2018)
ExampleRows ==
    [i \in 1..9 |->
        Row(i, IF i <= 3 THEN "A" ELSE IF i <= 8 THEN "B" ELSE "C", 10,
            IF i <= 8 THEN 2017 ELSE 2018)]

TopRowSets ==
    {ExampleRows}
    \cup UNION {
        {[i \in 1..n |-> Row(i, pick[i][1], 10, pick[i][2])] :
            pick \in [1..n -> Channels \X TopYears]} :
        n \in 0..MaxTopRows}

InitTop ==
    /\ NoDate
    /\ \E rows \in TopRowSets : Loaded(rows)

CallTop ==
    /\ top.status = "pending"
    /\ \E year \in TopYears, top_range \in (-1)..MaxTopRange :
        \E top_producers \in top_video_producing_for_yr(frames[df], year, top_range) :
            top' = [status |-> "returned", year |-> year, top_range |-> top_range,
                    producers |-> top_producers]
    /\ UNCHANGED <<frameVars, dateVars>>

NextTop == CallTop

SpecTop == InitTop /\ [][NextTop]_vars

(***************************************************************************)
(* Properties of convert_date (checked under SpecDate)                     *)
(***************************************************************************)
Returned == result.status # "pending"

SameDate(year, month, day) ==
    /\ result.status = "ok"
    /\ result.year = year
    /\ result.month = month
    /\ result.day = day

\* the year strptime is to give a two-digit year, written out
PivotYear(yy) == IF yy >= 69 THEN 1900 + yy ELSE 2000 + yy

\* C1 as stated: for every valid compact timestamp 'YY.DD.MM', YY in 00..99, the
\* date returned has year 2000+YY, day DD and month MM.
C1_AsStated ==
    (Returned /\ given.form = "compact"
              /\ ValidDate(2000 + given.year, given.month, given.day))
        => SameDate(2000 + given.year, given.month, given.day)

\* C1 amended: for every valid compact timestamp 'YY.DD.MM' the date returned has
\* day DD and month MM (the day field is read before the month field) and year
\* 2000+YY when YY is in 00..68, 1900+YY when YY is in 69..99.
C1_CompactDate ==
    (Returned /\ given.form = "compact"
              /\ ValidDate(PivotYear(given.year), given.month, given.day))
        => /\ SameDate(PivotYear(given.year), given.month, given.day)
           /\ given.year <= 68 => result.year = 2000 + given.year
           /\ given.year >= 69 => result.year = 1900 + given.year

\* '99.14.11' was converted: to 14 November 1999
C1_Witness ==
    /\ given = Given("compact", 99, 11, 14, <<0, 0, 0>>)
    /\ timestamp = <<"9", "9", ".", "1", "4", ".", "1", "1">>
    /\ SameDate(1999, 11, 14)

WellFormed ==
    \/ /\ given.form \in {"compact", "loose"}
       /\ ValidDate(PivotYear(given.year), given.month, given.day)
    \/ /\ given.form = "iso"
       /\ ValidDate(given.year, given.month, given.day)
       /\ ValidTime(given.hour, given.minute, given.second)

\* C3 as stated: convert_date fails with a parse error for every input that matches
\* neither the compact form nor the ISO-8601 form with a trailing 'Z', and for every
\* input of either form that holds an invalid calendar date; it never returns a
\* guessed date.
C3_RejectsOtherText ==
    (Returned /\ ~WellFormed) => result.status = "ParseError"

\* C8 as stated: for every valid timestamp of either form and every target format,
\* convert_date succeeds and produces the calendar date of the timestamp.
C8_HonoursFormat ==
    (Returned /\ WellFormed)
        => SameDate(IF given.form = "iso" THEN given.year ELSE PivotYear(given.year),
                    given.month, given.day)

(***************************************************************************)
(* Properties of map_categories (checked under SpecLabel)                  *)
(***************************************************************************)
Last == history[Len(history)]

\* the last call made was map_categories(<frame>, category_dict), column left at its default
LabelledLast ==
    /\ history # <<>>
    /\ Last.op = "map_categories"
    /\ Last.column = "category_label"
    /\ Last.map_dict = "category_dict"

\* C4: after map_categories(df, category_dict), every record whose category_id is
\* a key of the map has exactly the label mapped to that key (10 -> 'Music'), and
\* every record whose category_id is no key (999) has a null category_label.
C4_LabelsFollowMap ==
    LabelledLast =>
        \A i \in 1..Len(frames[Last.frame].rows) :
            LET row == frames[Last.frame].rows[i]
            IN  /\ row.category_id \in DOMAIN category_dict
                    => row.category_label = category_dict[row.category_id]
                /\ row.category_id \notin DOMAIN category_dict
                    => row.category_label = NaN
                /\ row.category_id = 10 => row.category_label = "Music"
                /\ row.category_id = 999 => row.category_label = NaN

\* a frame with a record of category 10 and one of category 999 was labelled
C4_Witness ==
    /\ LabelledLast
    /\ \E i, j \in 1..Len(frames[Last.frame].rows) :
        /\ frames[Last.frame].rows[i].category_id = 10
        /\ frames[Last.frame].rows[i].category_label = "Music"
        /\ frames[Last.frame].rows[j].category_id = 999
        /\ frames[Last.frame].rows[j].category_label = NaN

\* the last two calls were both map_categories(<frame>, <dict>) on one frame with one dictionary
LabelledTwice ==
    /\ Len(history) >= 2
    /\ LET first == history[Len(history) - 1]
       IN  /\ first.op = "map_categories"
           /\ Last.op = "map_categories"
           /\ first.column = "category_label"
           /\ Last.column = "category_label"
           /\ first.frame = Last.frame
           /\ first.map_dict = Last.map_dict

\* C7: applying map_categories twice in a row to the same dataset with the same
\* map leaves on every record the category_label the first application wrote.
C7_Idempotent ==
    LabelledTwice =>
        /\ Len(frames[Last.frame].rows) = Len(prev[Last.frame].rows)
        /\ \A i \in 1..Len(frames[Last.frame].rows) :
            frames[Last.frame].rows[i].category_label
                = prev[Last.frame].rows[i].category_label

\* a frame holding a labelled record and an unlabelled one was labelled twice
C7_Witness ==
    /\ LabelledTwice
    /\ \E i, j \in 1..Len(frames[Last.frame].rows) :
        /\ frames[Last.frame].rows[i].category_label = "Music"
        /\ frames[Last.frame].rows[j].category_label = NaN

OtherFields == {"video_id", "title", "channel_title", "category_id", "publish_time", "year"}

VideosOf(channel, year) ==
    Cardinality({i \in 1..Len(frames[df].rows) :
        /\ frames[df].rows[i].channel_title = channel
        /\ frames[df].rows[i].publish_time.year = year})

ChannelsOf(year) == {c \in Channels : VideosOf(c, year) >= 1}

RankedChannels == {top.producers[i].channel : i \in 1..Len(top.producers)}

Position(channel) == CHOOSE i \in 1..Len(top.producers) : top.producers[i].channel = channel

\* the first record of a channel among those published in the year
FirstRecord(channel, year) ==
    CHOOSE i \in 1..Len(frames[df].rows) :
        /\ frames[df].rows[i].channel_title = channel
        /\ frames[df].rows[i].publish_time.year = year
        /\ \A j \in 1..(i - 1) :
            ~(frames[df].rows[j].channel_title = channel
              /\ frames[df].rows[j].publish_time.year = year)

CalledTop == top.status = "returned" /\ top.top_range >= 0

\* C5: each returned channel has a record published in the target year; each count
\* is the number of that channel's records published in that year; counts are in
\* non-increasing order; no channel left out has a count strictly greater than a
\* returned one.  A(3 in 2017), B(5 in 2017), C(1 in 2018), year 2017, N = 5 gives
\* [(B,5), (A,3)].
C5_RankedCounts ==
    CalledTop =>
        /\ \A i \in 1..Len(top.producers) :
            /\ top.producers[i].channel \in ChannelsOf(top.year)
            /\ top.producers[i].count = VideosOf(top.producers[i].channel, top.year)
        /\ \A i \in 1..(Len(top.producers) - 1) :
            top.producers[i].count >= top.producers[i + 1].count
        /\ \A c \in Channels \ RankedChannels : \A i \in 1..Len(top.producers) :
            VideosOf(c, top.year) <= top.producers[i].count
        /\ (frames[df].rows = ExampleRows /\ top.year = 2017 /\ top.top_range = 5)
            => top.producers = <<[channel |-> "B", count |-> 5],
                                 [channel |-> "A", count |-> 3]>>

\* the example was run: A(3, 2017), B(5, 2017), C(1, 2018), year 2017, N = 5
C5_Witness ==
    /\ top.status = "returned"
    /\ frames[df].rows = ExampleRows
    /\ top.year = 2017
    /\ top.top_range = 5
    /\ top.producers = <<[channel |-> "B", count |-> 5], [channel |-> "A", count |-> 3]>>

C9_EncounterOrder ==
    CalledTop =>
        \A x, y \in ChannelsOf(top.year) :
            (/\ VideosOf(x, top.year) = VideosOf(y, top.year)
             /\ FirstRecord(x, top.year) < FirstRecord(y, top.year))
                => /\ y \in RankedChannels => x \in RankedChannels
                   /\ (x \in RankedChannels /\ y \in RankedChannels)
                        => Position(x) < Position(y)

\* C9 amended: the order of channels with equal counts is not the encounter order
\* and is not fixed; X precedes Y in the ranking, and is kept in preference to Y
\* at the top-N cut, whenever X's count for the year is strictly greater than Y's.
C9_StrictOrderOnly ==
    CalledTop =>
        \A x, y \in ChannelsOf(top.year) :
            VideosOf(x, top.year) > VideosOf(y, top.year)
                => /\ y \in RankedChannels => x \in RankedChannels
                   /\ (x \in RankedChannels /\ y \in RankedChannels)
                        => Position(x) < Position(y)

\* a channel with more videos is ranked first; the two that tie follow it, the
\* one met later before the one met earlier
C9_Witness ==
    /\ CalledTop
    /\ \E x, y, z \in RankedChannels :
        /\ VideosOf(x, top.year) = VideosOf(y, top.year)
        /\ FirstRecord(x, top.year) < FirstRecord(y, top.year)
        /\ Position(y) < Position(x)
        /\ VideosOf(z, top.year) > VideosOf(x, top.year)
        /\ Position(z) < Position(y)
====
